---------------------------- MODULE Spec2Model ----------------------------
(***************************************************************************)
(* A model of bingo's CoevolutionIsland (src/bingo/CoevolutionIsland.py):  *)
(* the solution island, the fitness predictor island, the trainer list     *)
(* with its stored true fitness, the cached best predictor, and the        *)
(* operations generational_step, add_new_trainer, dump_populations and     *)
(* load_populations; and of the ProbabilityMassFunction of                 *)
(* src/bingo/Util/ProbabilityMassFunction.py: its items, its total weight  *)
(* and its normalized weights.                                             *)
(*                                                                         *)
(* Floats are modelled as exact rationals [n, d] in lowest terms with      *)
(* d > 0; the value nan is [n |-> 0, d |-> 0].  Genomes are small          *)
(* integers; the fitness metric and the predictors' fit_func are fixed     *)
(* tables over them.                                                       *)
(***************************************************************************)
EXTENDS Integers, Sequences, FiniteSets, TLC

(***************************************************************************)
(* Bounds of the model.                                                    *)
(***************************************************************************)
\* generational_step is not started once the solution island is this old
MaxAge == 4
\* no predictor generation is started once the predictor island is this old
MaxPredAge == 4
\* the calls of add_new_trainer, dump_populations and load_populations made
\* from outside are at most this many, and made before the solution island
\* is older than MaxCallAge; generational_step calls that interleave with
\* them stop at that age too; a load never makes a container longer than
\* its configured size
MaxCalls == 1
MaxCallAge == 3
\* add_item is not called on a ProbabilityMassFunction of this many items
MaxItems == 3

(***************************************************************************)
(* Configuration: the keyword arguments of __init__.                       *)
(***************************************************************************)
solution_pop_size == 2
predictor_pop_size == 2
trainer_pop_size == 2
trainer_update_freq == 2
predictor_update_freq == 3
\* predictor_ratio = predictor_ratio_num / predictor_ratio_den
predictor_ratio_num == 3
predictor_ratio_den == 4

\* the genomes the solution manipulator and the predictor manipulator
\* generate
SolGenomes == {1, 2, 3}
PredGenomes == {1, 2}

\* two more solution genomes, for the specifications of construction and
\* of add_new_trainer alone: 4, on which the predictors disagree most, and
\* 5, which has an exact fitness and which predictor 2 cannot score
DrawGenomes == SolGenomes \cup {5}
ScanGenomes == SolGenomes \cup {4}

(***************************************************************************)
(* Float arithmetic: exact rationals with nan.                             *)
(***************************************************************************)
RECURSIVE Gcd(_, _)
Gcd(a, b) ==
    IF b = 0 THEN a ELSE Gcd(b, a % b)

IAbs(k) ==
    IF k < 0 THEN -k ELSE k

nan == [n |-> 0, d |-> 0]

isnan(x) ==
    x.d = 0

\* the float n/d, in lowest terms; a zero denominator gives nan
Float(n, d) ==
    IF d = 0 THEN nan
    ELSE LET g == Gcd(IAbs(n), IAbs(d))
             s == IF d < 0 THEN -1 ELSE 1
         IN  [n |-> (s * n) \div g, d |-> (s * d) \div g]

FAdd(x, y) ==
    IF isnan(x) \/ isnan(y) THEN nan
    ELSE Float(x.n * y.d + y.n * x.d, x.d * y.d)

FSub(x, y) ==
    IF isnan(x) \/ isnan(y) THEN nan
    ELSE Float(x.n * y.d - y.n * x.d, x.d * y.d)

FMul(x, y) ==
    IF isnan(x) \/ isnan(y) THEN nan
    ELSE Float(x.n * y.n, x.d * y.d)

\* x / k for an int k > 0
FDivInt(x, k) ==
    IF isnan(x) THEN nan ELSE Float(x.n, x.d * k)

FAbs(x) ==
    IF isnan(x) THEN nan ELSE [n |-> IAbs(x.n), d |-> x.d]

\* x < y and x > y: False whenever an operand is nan
FLess(x, y) ==
    /\ ~isnan(x)
    /\ ~isnan(y)
    /\ x.n * y.d < y.n * x.d

FGreater(x, y) ==
    FLess(y, x)

\* x / y; callers never divide by a zero float (Python raises there)
FDiv(x, y) ==
    IF isnan(x) \/ isnan(y) THEN nan
    ELSE Float(x.n * y.d, x.d * y.n)

(***************************************************************************)
(* The collaborators' numeric behaviour, as fixed tables over the genomes. *)
(***************************************************************************)
\* fitness_metric.evaluate_fitness(solution, training_data)
evaluate_fitness(g) ==
    CASE g = 1 -> Float(1, 1)
      [] g = 2 -> Float(3, 1)
      [] g = 4 -> Float(2, 1)
      [] g = 5 -> Float(2, 1)
      [] OTHER -> nan

\* pred.fit_func(sol, fitness_metric, training_data) of predictor genome p
fit_func(p, g) ==
    CASE p = 1 /\ g = 1 -> Float(1, 1)
      [] p = 1 /\ g = 2 -> Float(3, 1)
      [] p = 1 /\ g = 3 -> Float(2, 1)
      [] p = 2 /\ g = 1 -> Float(1, 1)
      [] p = 2 /\ g = 2 -> Float(1, 1)
      [] p = 1 /\ g = 4 -> Float(5, 1)
      [] p = 2 /\ g = 4 -> Float(1, 1)
      [] p = 1 /\ g = 5 -> Float(2, 1)
      [] OTHER          -> nan

solution_fitness_true(g) ==
    evaluate_fitness(g)

(***************************************************************************)
(* State.                                                                  *)
(***************************************************************************)
VARIABLES
    sol_pop,                \* solution_island.pop: Seq of [g, fit_set]
    sol_age,                \* solution_island.age
    sol_evals,              \* solution_island.fitness_evals
    pred_pop,               \* predictor_island.pop: Seq of [g, fit_set, fitness]
    pred_age,               \* predictor_island.age
    pred_evals,             \* predictor_island.fitness_evals
    trainers,               \* self.trainers: Seq of solution genomes
    trainers_true_fitness,  \* self.trainers_true_fitness: Seq of floats
    best_predictor,         \* self.best_predictor: a predictor genome
    pc,                     \* position inside generational_step / load_populations
    last,                   \* the call that made the last step, with its arguments
                            \* (t: the trainer subset of a dump) and, for a dump,
                            \* the trainer list it returned (ret)
    calls,                  \* how many calls were made from outside generational_step
    slot_writes,            \* per trainer slot, add_new_trainer overwrites so far
    fitness_function,       \* solution_island.fitness_function: the method's name
    trainers_alias,         \* per trainer slot, the 1-based position of the solution
                            \* member that is the same object, 0 for a copy
    items,                  \* ProbabilityMassFunction.items
    total_weight,           \* ProbabilityMassFunction.total_weight
    normalized_weights,     \* ProbabilityMassFunction.normalized_weights
    pmf_last                \* the ProbabilityMassFunction call that made the last step

vars ==
    <<sol_pop, sol_age, sol_evals, pred_pop, pred_age, pred_evals, trainers,
      trainers_true_fitness, best_predictor, pc, last, calls, slot_writes,
      fitness_function, trainers_alias, items, total_weight, normalized_weights,
      pmf_last>>

\* the fields of the CoevolutionIsland and of the ProbabilityMassFunction
island_vars ==
    <<sol_pop, sol_age, sol_evals, pred_pop, pred_age, pred_evals, trainers,
      trainers_true_fitness, best_predictor, pc, last, calls, slot_writes,
      fitness_function, trainers_alias>>

pmf_vars ==
    <<items, total_weight, normalized_weights, pmf_last>>

Min(a, b) ==
    IF a < b THEN a ELSE b

\* the genomes held by a population
Genomes(pop) ==
    [i \in DOMAIN pop |-> pop[i].g]

\* the members of seq whose 0-based index is not in subset, in order
RECURSIVE Without(_, _, _)
Without(seq, subset, k) ==
    IF k = 0 THEN <<>>
    ELSE IF (k - 1) \in subset
         THEN Without(seq, subset, k - 1)
         ELSE Append(Without(seq, subset, k - 1), seq[k])

\* the members of seq whose 0-based index is in subset, in order
RECURSIVE Only(_, _, _)
Only(seq, subset, k) ==
    IF k = 0 THEN <<>>
    ELSE IF (k - 1) \in subset
         THEN Append(Only(seq, subset, k - 1), seq[k])
         ELSE Only(seq, subset, k - 1)

(***************************************************************************)
(* The fitness adapters of CoevolutionIsland.                              *)
(***************************************************************************)
\* the loop of predictor_fitness over zip(trainers, trainers_true_fitness)
RECURSIVE AbsErr(_, _, _, _)
AbsErr(p, trs, fits, k) ==
    IF k = 0 THEN Float(0, 1)
    ELSE FAdd(AbsErr(p, trs, fits, k - 1),
              FAbs(FSub(fits[k], fit_func(p, trs[k]))))

\* predictor_fitness dividing by the configured number of trainers
predictor_fitness_configured_size(p, trs, fits) ==
    FDivInt(AbsErr(p, trs, fits, Min(Len(trs), Len(fits))), trainer_pop_size)

\* predictor_fitness(predictor); Python raises ZeroDivisionError when
\* trs is empty, so callers only use it on a non-empty trainer list
predictor_fitness(p, trs, fits) ==
    FDivInt(AbsErr(p, trs, fits, Min(Len(trs), Len(fits))), Len(trs))

(***************************************************************************)
(* add_new_trainer.                                                        *)
(***************************************************************************)
RECURSIVE FSum(_, _)
FSum(xs, k) ==
    IF k = 0 THEN Float(0, 1) ELSE FAdd(FSum(xs, k - 1), xs[k])

\* numpy.var: the mean of the squared deviations from the mean; nan for
\* an empty list or a list holding nan
np_var(xs) ==
    IF Len(xs) = 0 THEN nan
    ELSE LET n    == Len(xs)
             mean == FDivInt(FSum(xs, n), n)
             devs == [i \in 1..n |-> FMul(FSub(xs[i], mean), FSub(xs[i], mean))]
         IN  FDivInt(FSum(devs, n), n)

\* pfit_list of one solution member: every predictor's estimate of it
pfit_list(g, preds) ==
    [j \in DOMAIN preds |-> fit_func(preds[j].g, g)]

\* the scan of add_new_trainer over the first k members of the solution
\* population: s_best (its genome, its 1-based position, whether it is a
\* copy) and max_variance
\* the scan taking a later member of the same variance
RECURSIVE ScanBestLast(_, _, _)
ScanBestLast(pop, preds, k) ==
    IF k = 0 THEN [g |-> pop[1].g, idx |-> 1, copied |-> FALSE,
                   max_variance |-> Float(0, 1)]
    ELSE LET prev     == ScanBestLast(pop, preds, k - 1)
             variance == np_var(pfit_list(pop[k].g, preds))
         IN  IF FGreater(variance, prev.max_variance)
                \/ (variance = prev.max_variance /\ FGreater(variance, Float(0, 1)))
             THEN [g |-> pop[k].g, idx |-> k, copied |-> TRUE,
                   max_variance |-> variance]
             ELSE prev

RECURSIVE ScanBest(_, _, _)
ScanBest(pop, preds, k) ==
    IF k = 0 THEN [g |-> pop[1].g, idx |-> 1, copied |-> FALSE,
                   max_variance |-> Float(0, 1)]
    ELSE LET prev     == ScanBest(pop, preds, k - 1)
             variance == np_var(pfit_list(pop[k].g, preds))
         IN  IF FGreater(variance, prev.max_variance)
             THEN [g |-> pop[k].g, idx |-> k, copied |-> TRUE,
                   max_variance |-> variance]
             ELSE prev

s_best(pop, preds) ==
    ScanBest(pop, preds, Len(pop))

\* the slot taken from the age after the coming generation
location_next(age, trs) ==
    ((age + 1) \div trainer_update_freq) % Len(trs)

\* the 0-based slot add_new_trainer overwrites
location(age, trs) ==
    (age \div trainer_update_freq) % Len(trs)

\* add_new_trainer raises on an empty solution population (pop[0]) and on
\* an empty trainer list (% len(self.trainers)), before it changes anything
add_new_trainer_raises(pop, trs) ==
    pop = <<>> \/ trs = <<>>

\* add_new_trainer appending the chosen candidate
add_new_trainer_appends(trs, pop, preds, age) ==
    Append(trs, s_best(pop, preds).g)

\* self.trainers after add_new_trainer
add_new_trainer(trs, pop, preds, age) ==
    [trs EXCEPT ![location(age, trs) + 1] = s_best(pop, preds).g]

\* which solution member each trainer slot shares its object with, after
\* add_new_trainer: line 187 takes a copy, line 173 takes pop[0] itself
add_new_trainer_alias(al, pop, preds, age) ==
    [al EXCEPT ![location(age, al) + 1] =
        IF s_best(pop, preds).copied THEN 0 ELSE 1]

\* self.trainers_true_fitness after add_new_trainer: the method never
\* assigns to it
add_new_trainer_fitness(fits, pop, preds, age) ==
    fits

(***************************************************************************)
(* The Island engine and the gene manipulators (bingo/Island.py and the    *)
(* manipulators are outside the sources at hand).                          *)
(***************************************************************************)
\* a new individual: no fitness yet
NewSol(g) ==
    [g |-> g, fit_set |-> FALSE]

NewPred(g) ==
    [g |-> g, fit_set |-> FALSE, fitness |-> nan]

\* gene_manipulator.dump(indv): the genome as a list; the cached fitness
\* and its flag are not part of it
manip_dump(g) ==
    <<"genes", g>>

\* gene_manipulator.load(indv_list): the genome of the new individual
manip_load(lst) ==
    lst[2]

\* how many members the engine has to evaluate
Unset(pop) ==
    Cardinality({i \in DOMAIN pop : ~pop[i].fit_set})

\* the engine evaluates every member whose fitness is not current
sol_evaluate(pop) ==
    [i \in DOMAIN pop |-> [pop[i] EXCEPT !.fit_set = TRUE]]

pred_evaluate(pop, trs, fits) ==
    [i \in DOMAIN pop |->
        IF pop[i].fit_set THEN pop[i]
        ELSE [g |-> pop[i].g, fit_set |-> TRUE,
              fitness |-> predictor_fitness(pop[i].g, trs, fits)]]

\* selection and variation: the next generation, of the same size, is
\* made of new individuals, each to be evaluated once
offspring_sol(pop, newg) ==
    [i \in DOMAIN pop |-> NewSol(newg[i])]

offspring_pred(pop, newg) ==
    [i \in DOMAIN pop |-> NewPred(newg[i])]

\* best_indv() over an evaluated population: the first member no other
\* member is better than
RECURSIVE BestOf(_, _)
BestOf(pop, k) ==
    IF k = 1 THEN pop[1]
    ELSE LET prev == BestOf(pop, k - 1)
         IN  IF FLess(pop[k].fitness, prev.fitness) THEN pop[k] ELSE prev

best_indv(pop) ==
    BestOf(pop, Len(pop))

\* best_indv() raises on an empty population, and evaluating a predictor
\* raises on an empty trainer list
best_indv_raises(pop, trs) ==
    \/ pop = <<>>
    \/ trs = <<>> /\ Unset(pop) > 0

\* Island.dump_population(subset, with_removal): what it returns, and the
\* population it leaves
dump_population(pop, subset) ==
    LET kept == Only(pop, subset, Len(pop))
    IN  [i \in DOMAIN kept |-> manip_dump(kept[i].g)]

dump_population_rest(pop, subset, with_removal) ==
    IF with_removal THEN Without(pop, subset, Len(pop)) ELSE pop

\* Island.load_population(pop_list, replace)
load_population_sol(pop, pop_list, replace) ==
    (IF replace THEN <<>> ELSE pop)
        \o [i \in DOMAIN pop_list |-> NewSol(manip_load(pop_list[i]))]

load_population_pred(pop, pop_list, replace) ==
    (IF replace THEN <<>> ELSE pop)
        \o [i \in DOMAIN pop_list |-> NewPred(manip_load(pop_list[i]))]

(***************************************************************************)
(* ProbabilityMassFunction (src/bingo/Util/ProbabilityMassFunction.py).    *)
(* Weights are floats; numpy divides by zero without raising, and the      *)
(* result (inf or nan) is written nan here: neither is close to 1.         *)
(***************************************************************************)
\* the items and the weights the callers pass
PMFItems == {"a", "b"}
PMFWeights == {Float(-1, 1), Float(0, 1), Float(1, 1), Float(2, 1)}

np_sum(ws) ==
    FSum(ws, Len(ws))

\* x / y elementwise
np_true_divide(x, y) ==
    IF isnan(x) \/ isnan(y) THEN nan ELSE Float(x.n * y.d, x.d * y.n)

\* np.min of a list that is not empty: nan when it holds nan
RECURSIVE np_min_upto(_, _)
np_min_upto(ws, k) ==
    IF k = 1 THEN ws[1]
    ELSE LET m == np_min_upto(ws, k - 1)
         IN  IF isnan(m) \/ isnan(ws[k]) THEN nan
             ELSE IF FLess(ws[k], m) THEN ws[k] ELSE m

np_min(ws) ==
    np_min_upto(ws, Len(ws))

\* np.isclose(a, 1.0): |a - 1| <= atol + rtol * 1 with atol = 1e-8 and
\* rtol = 1e-5, that is n/d <= 1001/10^8 for the distance n/d; a distance
\* with d < 99901 and n > 0 is above it
np_isclose_to_one(a) ==
    /\ ~isnan(a)
    /\ LET dist == FAbs(FSub(a, Float(1, 1)))
       IN  \/ dist.n = 0
           \/ dist.d >= 99901 /\ dist.n * 100000000 <= 1001 * dist.d

\* lines 32-38
get_default_weights(its) ==
    IF Len(its) > 0 THEN [i \in 1..Len(its) |-> Float(1, Len(its))] ELSE <<>>

\* lines 66-75, for numeric weights
calculate_total_weight(weights) ==
    np_sum(weights)

\* lines 56-64: the check raises ValueError
check_valid_weights_raises(normalized, weights) ==
    /\ Len(normalized) > 0
    /\ \/ ~np_isclose_to_one(np_sum(normalized))
       \/ FLess(np_min(normalized), Float(0, 1))

\* lines 48-54: what _normalize_weights returns, and whether it raises
normalize_weights(weights) ==
    LET total == calculate_total_weight(weights)
    IN  [total_weight       |-> total,
         normalized_weights |-> [i \in DOMAIN weights |->
                                    np_true_divide(weights[i], total)]]

normalize_weights_raises(weights) ==
    check_valid_weights_raises(normalize_weights(weights).normalized_weights,
                               weights)

\* lines 89-93 (len(...) is 0 holds exactly when the length is 0)
get_mean_current_weight ==
    IF Len(normalized_weights) = 0 THEN Float(1, 1)
    ELSE FDivInt(total_weight, Len(normalized_weights))

\* lines 9-22: the object a constructor call that does not raise leaves;
\* weights left at None are get_default_weights(its) (lines 16-17)
PMFConstructed(its, weights) ==
    /\ Len(weights) = Len(its)
    /\ ~normalize_weights_raises(weights)
    /\ items = its
    /\ total_weight = normalize_weights(weights).total_weight
    /\ normalized_weights = normalize_weights(weights).normalized_weights
    /\ pmf_last = [op |-> "__init__", raised |-> FALSE]

\* ProbabilityMassFunction(): no items
NoPMF ==
    PMFConstructed(<<>>, get_default_weights(<<>>))

\* line 78: self.items.append(new_item), the first statement of add_item,
\* made before the weights are looked at
add_item_items(new_item) ==
    Append(items, new_item)

\* lines 77-87: add_item(new_item, new_weight); a new_weight left at None
\* is the mean weight (lines 80-81)
AddItem ==
    /\ Len(items) < MaxItems
    /\ \E new_item \in PMFItems,
          new_weight \in PMFWeights \cup {get_mean_current_weight} :
          LET weights == [i \in DOMAIN normalized_weights |->
                             FMul(total_weight, normalized_weights[i])]
                             \o <<new_weight>>
              raises  == normalize_weights_raises(weights)
          IN  /\ items' = add_item_items(new_item)
              /\ IF raises
                 THEN UNCHANGED <<total_weight, normalized_weights>>
                 ELSE /\ total_weight' = normalize_weights(weights).total_weight
                      /\ normalized_weights' =
                             normalize_weights(weights).normalized_weights
              /\ pmf_last' = [op |-> "add_item", raised |-> raises]
    /\ UNCHANGED island_vars

(***************************************************************************)
(* Construction.                                                           *)
(***************************************************************************)
\* self.predictor_to_solution_eval_cost = len(self.trainers), set once
predictor_to_solution_eval_cost ==
    trainer_pop_size

\* the test of the rejection loop without the predictors' part
legal_trainer_by_fitness(g, preds) ==
    ~isnan(solution_fitness_true(g))

\* a rejection loop that takes whatever it draws
legal_trainer_any(g, preds) ==
    TRUE

\* the test of the rejection loop of __init__
legal_trainer(g, preds) ==
    /\ ~isnan(solution_fitness_true(g))
    /\ \A j \in DOMAIN preds : ~isnan(fit_func(preds[j].g, g))

NoCall ==
    [op |-> "__init__", flag |-> FALSE, own |-> FALSE, t |-> {}, ret |-> <<>>]

\* the island __init__ leaves for the initial genomes gs and ps and the
\* draws ind, all of them legal
Constructed(gs, ps, ind) ==
        LET preds == [j \in 1..predictor_pop_size |-> NewPred(ps[j])]
            trs   == [i \in 1..trainer_pop_size |-> gs[ind[i]]]
            fits  == [i \in 1..trainer_pop_size |-> solution_fitness_true(trs[i])]
        IN  /\ \A i \in 1..trainer_pop_size : legal_trainer(trs[i], preds)
            /\ sol_pop = [i \in 1..solution_pop_size |-> NewSol(gs[i])]
            /\ sol_age = 0
            /\ sol_evals = 0
            /\ trainers = trs
            /\ trainers_true_fitness = fits
            /\ pred_pop = pred_evaluate(preds, trs, fits)
            /\ pred_age = 0
            /\ pred_evals = predictor_pop_size
            /\ best_predictor = best_indv(pred_evaluate(preds, trs, fits)).g
            /\ pc = "idle"
            /\ last = NoCall
            /\ calls = 0
            /\ slot_writes = [i \in 0..(trainer_pop_size - 1) |-> 0]
            /\ fitness_function = "solution_fitness_est"
            /\ trainers_alias = [i \in 1..trainer_pop_size |-> 0]

InitFrom(genomes) ==
    /\ \E gs \in [1..solution_pop_size -> genomes],
          ps \in [1..predictor_pop_size -> PredGenomes],
          ind \in [1..trainer_pop_size -> 1..solution_pop_size] :
          Constructed(gs, ps, ind)
    /\ NoPMF

\* __init__ followed through its rejection loop.  Lines 74-90: the two
\* islands are made and the trainer lists are empty
InitDraw ==
    \E gs \in [1..solution_pop_size -> DrawGenomes],
       ps \in [1..predictor_pop_size -> PredGenomes] :
        /\ sol_pop = [i \in 1..solution_pop_size |-> NewSol(gs[i])]
        /\ sol_age = 0
        /\ sol_evals = 0
        /\ trainers = <<>>
        /\ trainers_true_fitness = <<>>
        /\ pred_pop = [j \in 1..predictor_pop_size |-> NewPred(ps[j])]
        /\ pred_age = 0
        /\ pred_evals = 0
        /\ best_predictor = 0
        /\ pc = "init"
        /\ last = NoCall
        /\ calls = 0
        /\ slot_writes = [i \in 0..(trainer_pop_size - 1) |-> 0]
        /\ fitness_function = "solution_fitness_est"
        /\ trainers_alias = <<>>
        /\ NoPMF

\* lines 93-103: one draw; a legal draw leaves the while loop and is
\* appended, any other is drawn again
DrawTrainer ==
    /\ pc = "init"
    /\ Len(trainers) < trainer_pop_size
    /\ \E ind \in 1..solution_pop_size :
          LET sol                 == sol_pop[ind]
              true_fitness        == solution_fitness_true(sol.g)
              legal_trainer_found == legal_trainer(sol.g, pred_pop)
          IN  /\ last' = [op |-> "__init__ draw", flag |-> legal_trainer_found,
                          own |-> FALSE, t |-> {}, ret |-> <<>>]
              /\ IF legal_trainer_found
                 THEN /\ trainers' = Append(trainers, sol.g)
                      /\ trainers_alias' = Append(trainers_alias, 0)
                      /\ trainers_true_fitness' =
                             Append(trainers_true_fitness, true_fitness)
                 ELSE UNCHANGED <<trainers, trainers_true_fitness, trainers_alias>>
    /\ UNCHANGED pmf_vars
    /\ UNCHANGED <<sol_pop, sol_age, sol_evals, pred_pop, pred_age, pred_evals,
                   best_predictor, pc, calls, slot_writes, fitness_function>>

\* lines 104-112: the cost is fixed and the best predictor cached
FinishInit ==
    /\ pc = "init"
    /\ Len(trainers) = trainer_pop_size
    /\ LET ev == pred_evaluate(pred_pop, trainers, trainers_true_fitness)
       IN  /\ pred_pop' = ev
           /\ pred_evals' = pred_evals + Unset(pred_pop)
           /\ best_predictor' = best_indv(ev).g
    /\ pc' = "idle"
    /\ last' = NoCall
    /\ UNCHANGED pmf_vars
    /\ UNCHANGED <<sol_pop, sol_age, sol_evals, pred_age, trainers,
                   trainers_true_fitness, calls, slot_writes, fitness_function,
                   trainers_alias>>

\* the state after construction
Init ==
    InitFrom(SolGenomes)

\* the state after construction, with a member the predictors disagree
\* on most
InitScan ==
    InitFrom(ScanGenomes)

(***************************************************************************)
(* generational_step.  The call is followed through its positions: the     *)
(* while loop ("gs"), the predictor step after a trainer update            *)
(* ("gs_pred"), the solution step after a predictor update ("gs_sol").     *)
(* While a call is under way no other call starts.                         *)
(***************************************************************************)
\* the share of the solution island's evaluations instead
current_ratio_of_solutions(p_evals, s_evals) ==
    FDiv(FDiv(Float(s_evals, 1), Float(predictor_to_solution_eval_cost, 1)),
         FAdd(Float(p_evals, 1),
              FDiv(Float(s_evals, 1), Float(predictor_to_solution_eval_cost, 1))))

\* lines 201-204 and 220-223
current_ratio(p_evals, s_evals) ==
    FDiv(Float(p_evals, 1),
         FAdd(Float(p_evals, 1),
              FDiv(Float(s_evals, 1), Float(predictor_to_solution_eval_cost, 1))))

\* the test of the while loop passing at the target as well
ratio_low_or_equal ==
    ~FGreater(current_ratio(pred_evals, sol_evals),
              Float(predictor_ratio_num, predictor_ratio_den))

\* the test of the while loop: current_ratio < self.predictor_ratio
ratio_low ==
    FLess(current_ratio(pred_evals, sol_evals),
          Float(predictor_ratio_num, predictor_ratio_den))

\* indv.fit_set = False for every member
clear_fit_set(pop) ==
    [i \in DOMAIN pop |-> [pop[i] EXCEPT !.fit_set = FALSE]]

\* the trainer update timed by the solution island's age
trainer_update_due_solution ==
    (sol_age + 1) % trainer_update_freq = 0

\* (self.predictor_island.age+1) % self.trainer_update_freq == 0
trainer_update_due ==
    (pred_age + 1) % trainer_update_freq = 0

\* the refresh timed by the generation just completed
predictor_update_due_now ==
    sol_age % predictor_update_freq = 0

\* (self.solution_island.age+1) % self.predictor_update_freq == 0
predictor_update_due ==
    (sol_age + 1) % predictor_update_freq = 0

\* one more overwrite of slot k (counted up to 2: "more than once")
count_write(k) ==
    [slot_writes EXCEPT ![k] = Min(@ + 1, 2)]

\* at the head of the while loop, with populations the engines can step
\* (what an engine does with an empty population is not in the sources)
AtLoopHead ==
    /\ pc \in {"idle", "gs"}
    /\ sol_age < MaxAge
    /\ sol_pop # <<>>
    /\ pred_pop # <<>>

StepCall ==
    [op |-> "generational_step", flag |-> FALSE, own |-> FALSE, t |-> {},
     ret |-> <<>>]

\* the call raising as well when a predictor cannot score a trainer
generational_step_raises_on_nan ==
    \/ IF ratio_low THEN trainers = <<>>
       ELSE predictor_update_due /\ best_indv_raises(pred_pop, trainers)
    \/ \E j \in DOMAIN pred_pop, i \in DOMAIN trainers :
          isnan(fit_func(pred_pop[j].g, trainers[i]))

\* the call raises ZeroDivisionError on an empty trainer list: in the
\* while loop by % len(self.trainers) of add_new_trainer (line 189) or by
\* / len(self.trainers) of predictor_fitness (line 151) when the predictor
\* island evaluates its new generation, and at line 229 when best_indv()
\* has a predictor to evaluate
generational_step_raises ==
    IF ratio_low THEN trainers = <<>>
    ELSE predictor_update_due /\ best_indv_raises(pred_pop, trainers)

\* lines 209-212: add_new_trainer and the clearing of the predictors' flags
GS_UpdateTrainers ==
    /\ AtLoopHead
    /\ ratio_low
    /\ pred_age < MaxPredAge
    /\ trainer_update_due
    /\ ~generational_step_raises
    /\ trainers' = add_new_trainer(trainers, sol_pop, pred_pop, sol_age)
    /\ trainers_true_fitness' =
           add_new_trainer_fitness(trainers_true_fitness, sol_pop, pred_pop, sol_age)
    /\ pred_pop' = clear_fit_set(pred_pop)
    /\ trainers_alias' =
           add_new_trainer_alias(trainers_alias, sol_pop, pred_pop, sol_age)
    /\ slot_writes' = count_write(location(sol_age, trainers))
    /\ pc' = "gs_pred"
    /\ last' = StepCall
    /\ UNCHANGED pmf_vars
    /\ UNCHANGED <<sol_pop, sol_age, sol_evals, pred_age, pred_evals, best_predictor,
                   calls,
                   fitness_function>>

\* line 214: self.predictor_island.generational_step()
GS_PredictorStep ==
    /\ \/ pc = "gs_pred"
       \/ /\ AtLoopHead
          /\ ratio_low
          /\ pred_age < MaxPredAge
          /\ ~trainer_update_due
          /\ ~generational_step_raises
    /\ \E newg \in [DOMAIN pred_pop -> PredGenomes] :
          LET off == offspring_pred(pred_pop, newg)
          IN  /\ pred_pop' = pred_evaluate(off, trainers, trainers_true_fitness)
              /\ pred_evals' = pred_evals + Unset(off)
    /\ pred_age' = pred_age + 1
    /\ pc' = "gs"
    /\ last' = StepCall
    /\ UNCHANGED pmf_vars
    /\ UNCHANGED <<sol_pop, sol_age, sol_evals, trainers, trainers_true_fitness,
                   best_predictor, calls, slot_writes,
                   fitness_function, trainers_alias>>

\* the fitness function a cache refresh leaves with the solution island
\* set back to the estimate
refreshed_fitness_function_est(f) ==
    "solution_fitness_est"

\* lines 226-231 of generational_step do not assign
\* solution_island.fitness_function
refreshed_fitness_function(f) ==
    f

\* lines 226-231: the best predictor is cached and the solutions' flags cleared
GS_UpdatePredictor ==
    /\ AtLoopHead
    /\ ~ratio_low
    /\ predictor_update_due
    /\ ~generational_step_raises
    /\ LET ev == pred_evaluate(pred_pop, trainers, trainers_true_fitness)
       IN  /\ pred_pop' = ev
           /\ pred_evals' = pred_evals + Unset(pred_pop)
           /\ best_predictor' = best_indv(ev).g
    /\ sol_pop' = clear_fit_set(sol_pop)
    /\ fitness_function' = refreshed_fitness_function(fitness_function)
    /\ pc' = "gs_sol"
    /\ last' = StepCall
    /\ UNCHANGED pmf_vars
    /\ UNCHANGED <<sol_age, sol_evals, pred_age, trainers, trainers_true_fitness,
                   calls, slot_writes,
                   trainers_alias>>

\* lines 234-235: self.solution_island.generational_step()
GS_SolutionStep ==
    /\ \/ pc = "gs_sol"
       \/ AtLoopHead /\ ~ratio_low /\ ~predictor_update_due
    /\ \E newg \in [DOMAIN sol_pop -> SolGenomes] :
          LET off == offspring_sol(sol_pop, newg)
          IN  /\ sol_pop' = sol_evaluate(off)
              /\ sol_evals' = sol_evals + Unset(off)
    /\ sol_age' = sol_age + 1
    /\ trainers_alias' = [i \in DOMAIN trainers_alias |-> 0]
    /\ pc' = "idle"
    /\ last' = StepCall
    /\ UNCHANGED pmf_vars
    /\ UNCHANGED <<pred_pop, pred_age, pred_evals, trainers, trainers_true_fitness,
                   best_predictor, calls, slot_writes,
                   fitness_function>>

\* the call ends with the exception; add_new_trainer raises before it
\* changes anything, the predictor island's step raises with its new
\* generation made or not
GS_Raises ==
    /\ AtLoopHead
    /\ generational_step_raises
    /\ IF ratio_low /\ ~trainer_update_due
       THEN \E newg \in [DOMAIN pred_pop -> PredGenomes] :
               pred_pop' \in {pred_pop, offspring_pred(pred_pop, newg)}
       ELSE pred_pop' = pred_pop
    /\ pc' = "idle"
    /\ last' = [StepCall EXCEPT !.op = "generational_step raised"]
    /\ UNCHANGED pmf_vars
    /\ UNCHANGED <<sol_pop, sol_age, sol_evals, pred_age, pred_evals, trainers,
                   trainers_true_fitness, best_predictor, calls, slot_writes,
                   fitness_function, trainers_alias>>

(***************************************************************************)
(* add_new_trainer called directly.                                        *)
(***************************************************************************)
\* a call from outside can start
CallAllowed ==
    /\ pc = "idle"
    /\ calls < MaxCalls
    /\ sol_age <= MaxCallAge

AddNewTrainer ==
    /\ CallAllowed
    /\ calls' = calls + 1
    /\ ~add_new_trainer_raises(sol_pop, trainers)
    /\ trainers' = add_new_trainer(trainers, sol_pop, pred_pop, sol_age)
    /\ trainers_true_fitness' =
           add_new_trainer_fitness(trainers_true_fitness, sol_pop, pred_pop, sol_age)
    /\ slot_writes' = count_write(location(sol_age, trainers))
    /\ trainers_alias' =
           add_new_trainer_alias(trainers_alias, sol_pop, pred_pop, sol_age)
    /\ last' = [op |-> "add_new_trainer", flag |-> FALSE, own |-> FALSE, t |-> {},
                ret |-> <<>>]
    /\ UNCHANGED pmf_vars
    /\ UNCHANGED <<sol_pop, sol_age, sol_evals, pred_pop, pred_age, pred_evals,
                   best_predictor, pc,
                   fitness_function>>

(***************************************************************************)
(* dump_populations and load_populations.                                  *)
(***************************************************************************)
\* the 0-based indices of a container; a subset of None stands for all
Indices(seq) ==
    0..(Len(seq) - 1)

\* lines 269-276: the (dumped genome, true fitness) pairs at the indices
\* of t_subset, over zip(trainers, trainers_true_fitness)
trainer_list(trs, fits, t_subset) ==
    LET n     == Min(Len(trs), Len(fits))
        pairs == [i \in 1..n |-> <<manip_dump(trs[i]), fits[i]>>]
    IN  Only(pairs, t_subset, n)

\* what dump_populations returns
dump_populations(s_subset, p_subset, t_subset) ==
    <<dump_population(sol_pop, s_subset),
      dump_population(pred_pop, p_subset),
      trainer_list(trainers, trainers_true_fitness, t_subset)>>

\* the removal keeping the dumped members instead
trainers_rest_dumped(seq, t_subset, with_removal) ==
    IF with_removal THEN Only(seq, t_subset, Len(seq)) ELSE seq

\* lines 277-282: the removal from the two trainer lists
trainers_rest(seq, t_subset, with_removal) ==
    IF with_removal THEN Without(seq, t_subset, Len(seq)) ELSE seq

\* the shared members after the solution island's removal: a removed
\* member is no longer in the population, the others move up
alias_rest(al, s_subset, with_removal) ==
    [i \in DOMAIN al |->
        IF ~with_removal \/ al[i] = 0 THEN al[i]
        ELSE IF (al[i] - 1) \in s_subset THEN 0
        ELSE al[i] - Cardinality({j \in s_subset : j < al[i] - 1})]

DumpPopulations ==
    /\ CallAllowed
    /\ calls' = calls + 1
    /\ \E s_subset \in {{}, Indices(sol_pop)},
          p_subset \in {{}, Indices(pred_pop)},
          t_subset \in SUBSET Indices(trainers),
          with_removal \in BOOLEAN :
          /\ sol_pop' = dump_population_rest(sol_pop, s_subset, with_removal)
          /\ pred_pop' = dump_population_rest(pred_pop, p_subset, with_removal)
          /\ trainers_alias' =
                 trainers_rest(alias_rest(trainers_alias, s_subset, with_removal),
                               t_subset, with_removal)
          /\ trainers' = trainers_rest(trainers, t_subset, with_removal)
          /\ trainers_true_fitness' =
                 trainers_rest(trainers_true_fitness, t_subset, with_removal)
          /\ last' = [op |-> "dump_populations", flag |-> with_removal, own |-> FALSE,
                      t |-> t_subset,
                      ret |-> dump_populations(s_subset, p_subset, t_subset)[3]]
    /\ UNCHANGED pmf_vars
    /\ UNCHANGED <<sol_age, sol_evals, pred_age, pred_evals, best_predictor, pc,
                   slot_writes,
                   fitness_function>>

\* the snapshots that come from another island: what its dump_populations
\* returns for index subsets that are empty or None, the other island
\* holding one solution, one predictor and one trainer
other_sol_pop == <<NewSol(3)>>
other_pred_pop == <<NewPred(2)>>
other_trainers == <<2>>
other_trainers_true_fitness == <<solution_fitness_true(2)>>

ForeignSnapshots ==
    {<<dump_population(other_sol_pop, s_subset),
       dump_population(other_pred_pop, p_subset),
       trainer_list(other_trainers, other_trainers_true_fitness, t_subset)>> :
        s_subset \in {{}, Indices(other_sol_pop)},
        p_subset \in {{}, Indices(other_pred_pop)},
        t_subset \in {{}, Indices(other_trainers)}}

\* the loaded trainers put in front, one after the other
load_trainers_front(trs, t_list, replace) ==
    [i \in DOMAIN t_list |-> manip_load(t_list[Len(t_list) + 1 - i][1])]
        \o (IF replace THEN <<>> ELSE trs)

\* lines 303-309: the two trainer lists after the load
load_trainers(trs, t_list, replace) ==
    (IF replace THEN <<>> ELSE trs)
        \o [i \in DOMAIN t_list |-> manip_load(t_list[i][1])]

load_trainers_fitness(fits, t_list, replace) ==
    (IF replace THEN <<>> ELSE fits)
        \o [i \in DOMAIN t_list |-> t_list[i][2]]

\* the loaded trainers are new objects; a replaced solution population
\* shares no member with the trainers that stay
load_trainers_alias(al, t_list, replace) ==
    (IF replace THEN <<>> ELSE al) \o [i \in DOMAIN t_list |-> 0]

\* lines 296-309: the three containers are loaded
LoadPopulations ==
    /\ CallAllowed
    /\ calls' = calls + 1
    /\ \E replace \in BOOLEAN,
          pop_lists \in ForeignSnapshots
                          \cup {dump_populations(Indices(sol_pop), Indices(pred_pop),
                                                 Indices(trainers))} :
          /\ sol_pop' = load_population_sol(sol_pop, pop_lists[1], replace)
          /\ pred_pop' = load_population_pred(pred_pop, pop_lists[2], replace)
          /\ trainers_alias' = load_trainers_alias(trainers_alias, pop_lists[3], replace)
          /\ trainers' = load_trainers(trainers, pop_lists[3], replace)
          /\ trainers_true_fitness' =
                 load_trainers_fitness(trainers_true_fitness, pop_lists[3], replace)
          /\ Len(sol_pop') <= solution_pop_size
          /\ Len(pred_pop') <= predictor_pop_size
          /\ Len(trainers') <= trainer_pop_size
          /\ last' = [op |-> "load_populations", flag |-> replace,
                      own |-> (pop_lists = dump_populations(Indices(sol_pop),
                                                            Indices(pred_pop),
                                                            Indices(trainers))),
                      t |-> {}, ret |-> <<>>]
    /\ pc' = "load_best"
    /\ UNCHANGED pmf_vars
    /\ UNCHANGED <<sol_age, sol_evals, pred_age, pred_evals, best_predictor,
                   slot_writes,
                   fitness_function>>

\* the cache left as it was
load_best_predictor_kept(pop) ==
    best_predictor

\* self.best_predictor of line 311
load_best_predictor(pop) ==
    best_indv(pop).g

\* line 311: self.best_predictor = self.predictor_island.best_indv().copy()
LoadBestPredictor ==
    /\ pc = "load_best"
    /\ IF best_indv_raises(pred_pop, trainers)
       THEN /\ last' = [last EXCEPT !.op = "load_populations raised"]
            /\ UNCHANGED <<pred_pop, pred_evals, best_predictor>>
       ELSE LET ev == pred_evaluate(pred_pop, trainers, trainers_true_fitness)
            IN  /\ pred_pop' = ev
                /\ pred_evals' = pred_evals + Unset(pred_pop)
                /\ best_predictor' = load_best_predictor(ev)
                /\ last' = last
    /\ pc' = "idle"
    /\ UNCHANGED pmf_vars
    /\ UNCHANGED <<sol_pop, sol_age, sol_evals, pred_age, trainers,
                   trainers_true_fitness, calls, slot_writes,
                   fitness_function, trainers_alias>>

(***************************************************************************)
(* use_true_fitness.                                                       *)
(***************************************************************************)
\* lines 328-331
UseTrueFitness ==
    /\ CallAllowed
    /\ calls' = calls + 1
    /\ fitness_function' = "true_fitness_plus_complexity"
    /\ sol_pop' = clear_fit_set(sol_pop)
    /\ last' = [op |-> "use_true_fitness", flag |-> FALSE, own |-> FALSE, t |-> {},
                ret |-> <<>>]
    /\ UNCHANGED pmf_vars
    /\ UNCHANGED <<sol_age, sol_evals, pred_pop, pred_age, pred_evals, trainers,
                   trainers_true_fitness, best_predictor, pc, slot_writes,
                   trainers_alias>>

(***************************************************************************)
(* The specifications.                                                     *)
(***************************************************************************)
\* generational_step interleaved with calls from outside
Young ==
    sol_age < MaxCallAge

YoungPred ==
    pred_age < MaxCallAge

Next ==
    \/ Young /\ YoungPred /\ GS_UpdateTrainers
    \/ Young /\ YoungPred /\ GS_PredictorStep
    \/ Young /\ GS_UpdatePredictor
    \/ Young /\ GS_SolutionStep
    \/ Young /\ GS_Raises
    \/ AddNewTrainer
    \/ DumpPopulations
    \/ LoadPopulations
    \/ LoadBestPredictor
    \/ UseTrueFitness

Spec ==
    Init /\ [][Next]_vars

\* the island driven by generational_step alone
NextStep ==
    \/ GS_UpdateTrainers
    \/ GS_PredictorStep
    \/ GS_UpdatePredictor
    \/ GS_SolutionStep

SpecStep ==
    Init /\ [][NextStep]_vars

\* add_new_trainer alone
NextScan ==
    AddNewTrainer

SpecScan ==
    InitScan /\ [][NextScan]_vars

\* the construction alone
NextInit ==
    \/ DrawTrainer
    \/ FinishInit

SpecInit ==
    InitDraw /\ [][NextInit]_vars

\* the construction with fair draws: np.random.randint gives every index
\* with the same positive probability at every draw, so a draw that is
\* legal is not passed over forever
DrawLegal ==
    DrawTrainer /\ last'.flag

SpecInitFair ==
    SpecInit /\ WF_vars(DrawLegal)

\* a ProbabilityMassFunction from its construction on, beside an island
\* that is left alone
InitPMF ==
    /\ Constructed(<<1, 1>>, <<1, 1>>, <<1, 1>>)
    /\ \E its \in UNION {[1..n -> PMFItems] : n \in 0..2} :
          \E weights \in {get_default_weights(its)} \cup [1..Len(its) -> PMFWeights] :
              PMFConstructed(its, weights)

NextPMF ==
    AddItem

SpecPMF ==
    InitPMF /\ [][NextPMF]_vars

(***************************************************************************)
(* Steps of interest.                                                      *)
(***************************************************************************)
\* this step is a run of add_new_trainer: from inside generational_step
\* (the only step that leads to "gs_pred") or called directly
AddNewTrainerStep ==
    \/ pc' = "gs_pred"
    \/ calls' = calls + 1 /\ last'.op = "add_new_trainer"

\* this step changes the trainer set
TrainerSetChanges ==
    \/ trainers' # trainers
    \/ trainers_true_fitness' # trainers_true_fitness

\* every slot but the 0-based slot k holds the genome it held
OtherSlotsKept(k) ==
    /\ DOMAIN trainers' = DOMAIN trainers
    /\ \A i \in DOMAIN trainers : i # k + 1 => trainers'[i] = trainers[i]

(***************************************************************************)
(* C1.  In every reachable state, for every trainer slot i the stored      *)
(* trainers_true_fitness[i] is the exact fitness-metric value of the       *)
(* genome held in trainers[i].                                             *)
(***************************************************************************)
C1_StoredFitnessIsExact ==
    /\ Len(trainers_true_fitness) = Len(trainers)
    /\ \A i \in DOMAIN trainers :
          trainers_true_fitness[i] = evaluate_fitness(trainers[i])

(***************************************************************************)
(* C2.  Every step that changes the trainer set (add_new_trainer inside    *)
(* generational_step or called directly, the loading of the containers by  *)
(* load_populations, dump_populations with removal) leaves every member    *)
(* of the predictor population with fit_set false.                         *)
(***************************************************************************)
C2_TrainerChangeClearsPredictors ==
    [][TrainerSetChanges => \A i \in DOMAIN pred_pop' : ~pred_pop'[i].fit_set]_vars

(***************************************************************************)
(* C3.  Every step that replaces the cached best predictor (the refresh    *)
(* inside generational_step, line 311 of load_populations) leaves every    *)
(* member of the solution population with fit_set false.                   *)
(***************************************************************************)
C3_CacheChangeClearsSolutions ==
    [][best_predictor' # best_predictor
          => \A i \in DOMAIN sol_pop' : ~sol_pop'[i].fit_set]_vars

(***************************************************************************)
(* C4.  A run of add_new_trainer at solution age a changes no slot but     *)
(* slot floor(a / trainer_update_freq) mod len(trainers) and leaves the    *)
(* number of trainers unchanged.  As claimed, with the number of trainers  *)
(* also equal to trainer_pop_size: C4_FrameAndConfiguredSize.              *)
(***************************************************************************)
C4_Frame ==
    [][AddNewTrainerStep
          => /\ OtherSlotsKept((sol_age \div trainer_update_freq) % Len(trainers))
             /\ Len(trainers') = Len(trainers)
             /\ Len(trainers_true_fitness') = Len(trainers')]_vars

C4_FrameAndConfiguredSize ==
    [][AddNewTrainerStep
          => /\ OtherSlotsKept((sol_age \div trainer_update_freq) % Len(trainers))
             /\ Len(trainers') = Len(trainers)
             /\ Len(trainers') = trainer_pop_size]_vars

\* add_new_trainer, called directly at a solution age of at least
\* trainer_update_freq, has overwritten slot 1 with another genome
C4_Witness ==
    /\ last.op = "add_new_trainer"
    /\ sol_age >= trainer_update_freq
    /\ slot_writes[1] = 1
    /\ slot_writes[0] = 0
    /\ Len(trainers) = trainer_pop_size
    /\ trainers[2] # trainers[1]

(***************************************************************************)
(* C5.  Driven by generational_step alone, trainer turnover is round       *)
(* robin: when the first trainer_update_freq x trainer_pop_size solution   *)
(* generations are complete, every trainer slot has been overwritten       *)
(* exactly once.                                                           *)
(***************************************************************************)
C5_RoundRobin ==
    (pc = "idle" /\ sol_age = trainer_update_freq * trainer_pop_size)
        => \A k \in 0..(trainer_pop_size - 1) : slot_writes[k] = 1

AbsErrorTerm(p, i) ==
    LET diff == FSub(trainers_true_fitness[i], fit_func(p, trainers[i]))
    IN  IF isnan(diff) THEN nan
        ELSE IF diff.n < 0 THEN [n |-> -diff.n, d |-> diff.d] ELSE diff

\* the sum of the terms of the slots in S
RECURSIVE SumOfTerms(_, _)
SumOfTerms(p, S) ==
    IF S = {} THEN [n |-> 0, d |-> 1]
    ELSE LET i == CHOOSE j \in S : TRUE
         IN  FAdd(AbsErrorTerm(p, i), SumOfTerms(p, S \ {i}))

\* x = s / k, for an int k > 0
IsQuotient(x, s, k) ==
    IF isnan(s) THEN isnan(x)
    ELSE ~isnan(x) /\ x.n * s.d * k = s.n * x.d

C8_MeanAbsoluteError ==
    trainers # <<>>
        => \A p \in PredGenomes :
              LET v == predictor_fitness(p, trainers, trainers_true_fitness)
              IN  /\ IsQuotient(v, SumOfTerms(p, DOMAIN trainers), Len(trainers))
                  /\ isnan(v) <=> \E i \in DOMAIN trainers : isnan(AbsErrorTerm(p, i))
                  /\ ~isnan(v) => v.n >= 0

C8_MeanAbsoluteErrorNonNegative ==
    trainers # <<>>
        => \A p \in PredGenomes :
              LET v == predictor_fitness(p, trainers, trainers_true_fitness)
              IN  /\ IsQuotient(v, SumOfTerms(p, DOMAIN trainers), Len(trainers))
                  /\ ~isnan(v)
                  /\ v.n >= 0

\* a trainer was removed, and a predictor errs on the one that is left
C8_Witness ==
    /\ last.op = "dump_populations"
    /\ last.flag
    /\ Len(trainers) = 1
    /\ \E p \in PredGenomes :
          FGreater(predictor_fitness(p, trainers, trainers_true_fitness),
                   Float(0, 1))

(***************************************************************************)
(* C9.  Round trip: load_populations(dump_populations(None, None, None,    *)
(* with_removal=False), replace=True) leaves the solution genomes, the     *)
(* predictor genomes and the (trainer genome, stored true fitness) pairs   *)
(* as they were before the dump, in content and order.                     *)
(***************************************************************************)
ListsKept ==
    /\ Genomes(sol_pop') = Genomes(sol_pop)
    /\ Genomes(pred_pop') = Genomes(pred_pop)
    /\ trainers' = trainers
    /\ trainers_true_fitness' = trainers_true_fitness

C9_RoundTrip ==
    [][/\ (calls' = calls + 1 /\ last'.op = "dump_populations" /\ ~last'.flag)
          => ListsKept
       /\ (pc' = "load_best" /\ last'.own /\ last'.flag) => ListsKept
       /\ pc = "load_best" => ListsKept]_vars

\* the round trip was made on an island whose trainers differ and whose
\* stored fitness is not all the same
C9_Witness ==
    /\ last.op = "load_populations"
    /\ last.own
    /\ last.flag
    /\ pc = "idle"
    /\ Len(trainers) = trainer_pop_size
    /\ trainers[1] # trainers[2]
    /\ trainers_true_fitness[1] # trainers_true_fitness[2]
    /\ Len(sol_pop) = solution_pop_size
    /\ sol_pop[1].g # sol_pop[2].g
    /\ Len(pred_pop) = predictor_pop_size
    /\ pred_pop[1].g # pred_pop[2].g

NaNScoring ==
    \E j \in DOMAIN pred_pop :
        \/ \E i \in DOMAIN trainers : isnan(fit_func(pred_pop[j].g, trainers[i]))
        \/ \E i \in DOMAIN sol_pop : isnan(fit_func(pred_pop[j].g, sol_pop[i].g))

\* this step is the raising of generational_step
RaiseStep ==
    last'.op = "generational_step raised" /\ pc' = "idle"

CountersKept ==
    /\ sol_age' >= sol_age
    /\ sol_evals' >= sol_evals
    /\ pred_age' >= pred_age
    /\ pred_evals' >= pred_evals

PassesBothTests(g) ==
    /\ ~isnan(evaluate_fitness(g))
    /\ \A j \in DOMAIN pred_pop : ~isnan(fit_func(pred_pop[j].g, g))

C13_InitialTrainersAreLegal ==
    [][/\ pc' = "idle"
          => /\ Len(trainers') = trainer_pop_size
             /\ Len(trainers_true_fitness') = trainer_pop_size
             /\ \A i \in DOMAIN trainers' :
                   /\ \E k \in DOMAIN sol_pop : sol_pop[k].g = trainers'[i]
                   /\ trainers_true_fitness'[i] = evaluate_fitness(trainers'[i])
                   /\ PassesBothTests(trainers'[i])
       /\ trainers' # trainers
          => /\ Len(trainers') = Len(trainers) + 1
             /\ PassesBothTests(trainers'[Len(trainers')])
             /\ \A i \in DOMAIN trainers : trainers'[i] = trainers[i]]_vars

\* after a first trainer was appended, a draw was rejected on the
\* predictors' test: every member has an exact fitness that is not nan
C13_Witness ==
    /\ pc = "init"
    /\ last.op = "__init__ draw"
    /\ ~last.flag
    /\ Len(trainers) = 1
    /\ \A k \in DOMAIN sol_pop : ~isnan(evaluate_fitness(sol_pop[k].g))

(***************************************************************************)
(* C14.  Every trainer is an independent clone: after construction and     *)
(* after every add_new_trainer call, the default choice of the             *)
(* population's first member included, no trainer slot holds the same      *)
(* object as a member of the solution population.                          *)
(***************************************************************************)
C14_TrainersAreClones ==
    \A i \in DOMAIN trainers_alias : trainers_alias[i] = 0

(***************************************************************************)
(* C15.  Each time generational_step advances the solution island, the     *)
(* ratio predictorEvals / (predictorEvals + solutionEvals / costRatio) of  *)
(* the counters at that moment is at least predictor_ratio; and each time  *)
(* it advances the predictor island, the ratio of the counters at that     *)
(* moment is strictly below predictor_ratio.  costRatio is the cost the    *)
(* code uses, predictor_to_solution_eval_cost.                             *)
(***************************************************************************)
\* p / (p + s / c) >= predictor_ratio, for counters p > 0, s >= 0 and c > 0
RatioMet(p, s, c) ==
    p * c * predictor_ratio_den >= predictor_ratio_num * (p * c + s)

C15_RatioDecidesWhichIslandSteps ==
    [][/\ sol_age' = sol_age + 1
          => RatioMet(pred_evals, sol_evals, predictor_to_solution_eval_cost)
       /\ pred_age' = pred_age + 1
          => ~RatioMet(pred_evals, sol_evals, predictor_to_solution_eval_cost)]_vars

\* the solution island was advanced with the ratio exactly at the target,
\* after the predictor island was
C15_Witness ==
    /\ last.op = "generational_step"
    /\ pc = "idle"
    /\ pred_age >= 2
    /\ sol_evals >= solution_pop_size
    /\ pred_evals * predictor_to_solution_eval_cost * predictor_ratio_den
          = predictor_ratio_num
              * (pred_evals * predictor_to_solution_eval_cost
                   + sol_evals - solution_pop_size)

(***************************************************************************)
(* C16.  In every generational_step call the cost used in the ratio is     *)
(* the number of trainers now in the trainer lists, also after             *)
(* dump_populations with removal or load_populations changed that number.  *)
(***************************************************************************)
C16_CostIsTrainerCount ==
    [][last'.op = "generational_step"
          => predictor_to_solution_eval_cost = Len(trainers)]_vars

(***************************************************************************)
(* C17.  generational_step replaces the cached best predictor if and only  *)
(* if the solution age of the call plus one is a multiple of               *)
(* predictor_update_freq, after the predictor steps of the call and        *)
(* right before the solution step, with the best member of the predictor   *)
(* population of that moment; no other step of generational_step, no       *)
(* predictor generation and no add_new_trainer call changes the cache.     *)
(***************************************************************************)
C17_CacheRefreshedAtSolutionAges ==
    [][/\ pc' = "gs_sol"
          => /\ (sol_age + 1) % predictor_update_freq = 0
             /\ \A j \in DOMAIN pred_pop' : pred_pop'[j].fit_set
             /\ \A j \in DOMAIN pred_pop' :
                   ~FLess(pred_pop'[j].fitness, BestOf(pred_pop', Len(pred_pop')).fitness)
             /\ best_predictor' = BestOf(pred_pop', Len(pred_pop')).g
       /\ (sol_age' = sol_age + 1 /\ (sol_age + 1) % predictor_update_freq = 0)
          => pc = "gs_sol"
       /\ (sol_age' = sol_age + 1 /\ pc = "gs_sol") => pred_pop' = pred_pop
       /\ (last'.op \in {"generational_step", "add_new_trainer"} /\ pc' # "gs_sol")
          => best_predictor' = best_predictor]_vars

\* the refresh has just put another predictor in the cache, and the best
\* member after the predictor steps of the call is not the first
C17_Witness ==
    /\ pc = "gs_sol"
    /\ pred_age > 0
    /\ Len(pred_pop) = predictor_pop_size
    /\ FLess(pred_pop[2].fitness, pred_pop[1].fitness)
    /\ best_predictor = pred_pop[2].g
    /\ best_predictor # pred_pop[1].g

(***************************************************************************)
(* C18.  add_new_trainer chooses the first member of the solution          *)
(* population, in population order, whose variance of the predictors'      *)
(* estimates is a number greater than zero, greater than that of every     *)
(* earlier member and not smaller than that of any later member; a member  *)
(* whose variance is nan is passed over and the scan goes on; when no      *)
(* member has a variance above zero the first member is chosen.            *)
(***************************************************************************)
\* the variance of the predictors' estimates of member k
VarianceOf(k) ==
    np_var(pfit_list(sol_pop[k].g, pred_pop))

\* member k has a variance that is a number above zero
Candidate(k) ==
    ~isnan(VarianceOf(k)) /\ VarianceOf(k).n > 0

\* x < y for two variances that are numbers
Below(x, y) ==
    x.n * y.d < y.n * x.d

\* k is the member the claim describes
Described(k) ==
    IF \E j \in DOMAIN sol_pop : Candidate(j)
    THEN /\ Candidate(k)
         /\ \A j \in DOMAIN sol_pop :
               (Candidate(j) /\ j < k) => Below(VarianceOf(j), VarianceOf(k))
         /\ \A j \in DOMAIN sol_pop :
               (Candidate(j) /\ j > k) => ~Below(VarianceOf(k), VarianceOf(j))
    ELSE k = 1

C18_FirstOfLargestVariance ==
    [][AddNewTrainerStep
          => /\ \E k \in DOMAIN sol_pop : Described(k)
             /\ \A k \in DOMAIN sol_pop :
                   Described(k)
                      => /\ s_best(sol_pop, pred_pop).idx = k
                         /\ trainers'[location(sol_age, trainers) + 1] = sol_pop[k].g]_vars

\* add_new_trainer has passed over a first member whose variance is nan
\* and chosen the second
C18_Witness ==
    /\ last.op = "add_new_trainer"
    /\ Len(sol_pop) = 2
    /\ isnan(VarianceOf(1))
    /\ Candidate(2)
    /\ sol_pop[2].g # sol_pop[1].g
    /\ trainers[1] = sol_pop[2].g
    /\ slot_writes[0] = 1

(***************************************************************************)
(* C19.  Every generational_step call terminates.  With the target ratio   *)
(* num/den below 1 and a positive cost, the integer                        *)
(*     num * sol_evals - (den - num) * cost * pred_evals                   *)
(* is positive whenever the while loop runs the predictor island, every    *)
(* such run lowers it (the island's counter goes up by at least one, the   *)
(* solution island's counter stays), and a call in which it is not         *)
(* positive steps the solution island without running the predictor        *)
(* island again: the loop runs at most that many times in a call.          *)
(***************************************************************************)
LoopVariant(p_evals, s_evals) ==
    predictor_ratio_num * s_evals
        - (predictor_ratio_den - predictor_ratio_num)
              * predictor_to_solution_eval_cost * p_evals

PredictorIslandSteps ==
    pred_age' = pred_age + 1

C19_LoopVariantDecreases ==
    [][/\ PredictorIslandSteps =>
              /\ pred_evals' >= pred_evals + 1
              /\ sol_evals' = sol_evals
              /\ LoopVariant(pred_evals, sol_evals) > 0
              /\ LoopVariant(pred_evals', sol_evals') < LoopVariant(pred_evals, sol_evals)
       /\ (/\ pc \in {"idle", "gs"}
           /\ last'.op = "generational_step"
           /\ LoopVariant(pred_evals, sol_evals) <= 0) =>
              /\ pc' \in {"gs_sol", "idle"}
              /\ pc' = "idle" => sol_age' = sol_age + 1]_vars

\* a call has ended whose while loop ran the predictor island twice
C19_Witness ==
    /\ pc = "idle"
    /\ last.op = "generational_step"
    /\ sol_age = 4
    /\ pred_age = 4
    /\ sol_evals = 4 * solution_pop_size
    /\ pred_evals = 5 * predictor_pop_size

(***************************************************************************)
(* C20.  dump_populations with the trainer subset T returns the (genome,   *)
(* stored true fitness) pairs at the indices of T, in slot order; with     *)
(* removal exactly those indices leave both lists, the others keeping      *)
(* their order and their own stored fitness; without removal the trainer   *)
(* set is unchanged.                                                       *)
(***************************************************************************)
\* the k-th smallest index of a set of indices
KthOf(S, k) ==
    CHOOSE i \in S : Cardinality({j \in S : j < i}) = k - 1

\* the members of seq at the 0-based indices S, in slot order
MembersAt(seq, S) ==
    [k \in 1..Cardinality(S) |-> seq[KthOf(S, k) + 1]]

DumpStep ==
    /\ calls' = calls + 1
    /\ last'.op = "dump_populations"

C20_TrainerSubsetDumpedAndRemoved ==
    [][DumpStep =>
          LET T    == last'.t
              rest == Indices(trainers) \ T
          IN  /\ T \subseteq Indices(trainers)
              /\ Len(last'.ret) = Cardinality(T)
              /\ \A k \in 1..Cardinality(T) :
                    /\ last'.ret[k][1] = manip_dump(MembersAt(trainers, T)[k])
                    /\ last'.ret[k][2] = MembersAt(trainers_true_fitness, T)[k]
              /\ IF last'.flag
                 THEN /\ trainers' = MembersAt(trainers, rest)
                      /\ trainers_true_fitness' =
                             MembersAt(trainers_true_fitness, rest)
                 ELSE /\ trainers' = trainers
                      /\ trainers_true_fitness' = trainers_true_fitness]_vars

\* the first of two different trainers was dumped with removal: the second
\* is left, with its own fitness
C20_Witness ==
    /\ last.op = "dump_populations"
    /\ last.flag
    /\ last.t = {0}
    /\ Len(last.ret) = 1
    /\ Len(trainers) = 1
    /\ Len(trainers_true_fitness) = 1
    /\ manip_load(last.ret[1][1]) # trainers[1]
    /\ last.ret[1][2] # trainers_true_fitness[1]

(***************************************************************************)
(* C21.  With fair draws, construction ends with exactly trainer_pop_size  *)
(* trainers whenever a member of the initial solution population is legal  *)
(* (an exact fitness that is not nan, and no initial predictor scoring it  *)
(* nan); when no member is legal, construction never ends and never        *)
(* raises: every step is one more rejected draw, which changes nothing.    *)
(***************************************************************************)
LegalMemberExists ==
    \E k \in DOMAIN sol_pop : PassesBothTests(sol_pop[k].g)

\* the for loop of lines 91-103 is through
TrainerSetBuilt ==
    /\ Len(trainers) = trainer_pop_size
    /\ Len(trainers_true_fitness) = trainer_pop_size

C21_ConstructionEndsIffLegalMember ==
    /\ LegalMemberExists ~> TrainerSetBuilt
    /\ [](pc = "idle" => TrainerSetBuilt)
    /\ [](~LegalMemberExists =>
              /\ pc = "init"
              /\ trainers = <<>>
              /\ trainers_true_fitness = <<>>
              /\ last.op \in {"__init__", "__init__ draw"})
    /\ [][~LegalMemberExists =>
              /\ last' = [op |-> "__init__ draw", flag |-> FALSE, own |-> FALSE,
                          t |-> {}, ret |-> <<>>]
              /\ UNCHANGED <<sol_pop, sol_age, sol_evals, pred_pop, pred_age,
                             pred_evals, trainers, trainers_true_fitness,
                             best_predictor, pc, calls, slot_writes,
                             fitness_function, trainers_alias>>]_vars

\* construction has ended on a population with one legal member only
C21_Witness ==
    /\ pc = "idle"
    /\ TrainerSetBuilt
    /\ Cardinality({k \in DOMAIN sol_pop : PassesBothTests(sol_pop[k].g)}) = 1
    /\ \A i \in DOMAIN trainers : PassesBothTests(trainers[i])

(***************************************************************************)
(* C22.  A ProbabilityMassFunction has as many items as normalized         *)
(* weights, after construction and after every add_item call, the calls    *)
(* that raise on invalid weights included.                                 *)
(***************************************************************************)
C22_ItemsMatchWeights ==
    Len(items) = Len(normalized_weights)

=============================================================================
